---- MODULE Spec2Model ----
(***************************************************************************)
(* State-machine model of the PMG1 MCU SPI slave example (source/main.c).  *)
(* main() initialises the board and the SPI slave, then loops forever:     *)
(* form the status packet, exchange one packet with the master, update the *)
(* LED from the received command.  SpiSlave.h / SpiSlave.c (packet         *)
(* constants, init_slave, read_packet) are not part of the sources at      *)
(* hand; they are modelled from the specification's description.           *)
(***************************************************************************)
EXTENDS Integers, Sequences, FiniteSets, TLC

VARIABLES
    pc,           \* position of main()
    result,       \* main.c:127  cy_rslt_t result
    status,       \* main.c:130  uint32_t status
    rx_buffer,    \* main.c:132
    tx_buffer,    \* main.c:133
    led_pin,      \* level of the CYBSP_USER_LED GPIO pin
    irq_enabled,  \* global interrupt enable (main.c:168)
    debug_print,  \* value of the DEBUG_PRINT macro of this build
    ENTER_LOOP,   \* main.c:77
    uart,         \* what has been printed on the debug UART
    log,          \* history: the exchanges completed so far
    ledCalls,     \* history: number of calls of update_led
    gpioWrites,   \* history: number of Cy_GPIO_Clr / Cy_GPIO_Set calls
    initCalls,    \* history: number of calls of init_slave
    built,        \* history: number of status packets formed
    spi_xfer,     \* the read_packet call in progress: bytes requested, bytes done
    startup,      \* history: the start-up calls made, in order
    gpioLog       \* history: the levels written to the LED pin, in order

vars == <<pc, result, status, rx_buffer, tx_buffer, led_pin, irq_enabled,
          debug_print, ENTER_LOOP, uart, log, ledCalls, gpioWrites,
          initCalls, built, spi_xfer, startup, gpioLog>>

----------------------------------------------------------------------------
(* Bounds of the model *)

\* number of exchanges the master drives in a run
MaxExchanges == 3

\* the byte values the master puts on the wire in the control-loop model
Bytes == {0, 1, 2, 23, 24}

\* the framing-byte values tried in the codec model (payload: every byte)
FrameBytes == {0, 1, 2, 23, 24, 255}

AllBytes == 0..255

----------------------------------------------------------------------------
(* Program constants *)

NUMBER_OF_ELEMENTS == 3
SIZE_OF_ELEMENT == 1
SIZE_OF_PACKET_sum == NUMBER_OF_ELEMENTS + SIZE_OF_ELEMENT
SIZE_OF_PACKET == NUMBER_OF_ELEMENTS * SIZE_OF_ELEMENT
CY_ASSERT_FAILED == 0

\* SpiSlave.h (positions are C indices, 0-based)
PACKET_SOP_POS == 0
PACKET_CMD_POS == 1
PACKET_EOP_POS == 2
PACKET_SOP == 1
PACKET_EOP == 23
TRANSFER_COMPLETE == "TRANSFER_COMPLETE"
TRANSFER_FAILURE == "TRANSFER_FAILURE"
INIT_SUCCESS == "INIT_SUCCESS"
INIT_FAILURE == "INIT_FAILURE"

\* board support package: command values of the LED states
CYBSP_LED_STATE_ON == 1
CYBSP_LED_STATE_OFF == 0

CY_RSLT_SUCCESS == "CY_RSLT_SUCCESS"

\* results of the transport below read_packet
TransferResults == {"Complete", "Incomplete", "Fault"}

----------------------------------------------------------------------------
(* Helpers *)

\* buf[pos] of the C code (0-based) on a TLA+ sequence (1-based)
At(buf, pos) == buf[pos + 1]

ZeroBuffer == [i \in 1..SIZE_OF_PACKET |-> 0]

Last(s) == s[Len(s)]

\* Cy_GPIO_Clr drives the pin low, Cy_GPIO_Set drives it high
Cy_GPIO_Clr(pin) == 0
Cy_GPIO_Set(pin) == 1

\* the LED is lit while the pin is low ("Turn ON the LED" is Cy_GPIO_Clr)
LedIsOn == led_pin = 0

----------------------------------------------------------------------------
(* Pure functions of the program *)

\* main.c:173-175, "Form the status packet"
FormStatusPacket_stale(tx, rx) ==
    [tx EXCEPT ![PACKET_SOP_POS + 1] = PACKET_SOP,
               ![PACKET_EOP_POS + 1] = PACKET_EOP]

FormStatusPacket_nosop(tx, rx) ==
    [tx EXCEPT ![PACKET_CMD_POS + 1] = At(rx, PACKET_CMD_POS),
               ![PACKET_EOP_POS + 1] = PACKET_EOP]

FormStatusPacket_swapped(tx, rx) ==
    [tx EXCEPT ![PACKET_SOP_POS + 1] = PACKET_EOP,
               ![PACKET_CMD_POS + 1] = At(rx, PACKET_CMD_POS),
               ![PACKET_EOP_POS + 1] = PACKET_SOP]

FormStatusPacket_ledlevel(tx, rx) ==
    [tx EXCEPT ![PACKET_SOP_POS + 1] = PACKET_SOP,
               ![PACKET_CMD_POS + 1] = IF LedIsOn THEN CYBSP_LED_STATE_ON
                                       ELSE CYBSP_LED_STATE_OFF,
               ![PACKET_EOP_POS + 1] = PACKET_EOP]

FormStatusPacket(tx, rx) ==
    [tx EXCEPT ![PACKET_SOP_POS + 1] = PACKET_SOP,
               ![PACKET_CMD_POS + 1] = At(rx, PACKET_CMD_POS),
               ![PACKET_EOP_POS + 1] = PACKET_EOP]

\* the framing check of the received packet (inside read_packet)
validate_soponly(buffer) ==
    At(buffer, PACKET_SOP_POS) = PACKET_SOP

validate(buffer) ==
    /\ At(buffer, PACKET_SOP_POS) = PACKET_SOP
    /\ At(buffer, PACKET_EOP_POS) = PACKET_EOP

\* the value read_packet returns for a transport result and a received packet
ReadPacketStatus(xfer, buffer) ==
    IF xfer = "Complete" /\ validate(buffer)
    THEN TRANSFER_COMPLETE
    ELSE TRANSFER_FAILURE

\* read_packet waits until every requested byte has been transferred
TransferDone_early(x) == TRUE

TransferDone(x) == x.count = x.size

\* main.c:182, if(status == TRANSFER_COMPLETE)
StatusOk_always(st) == TRUE

StatusOk_inverted(st) == st # TRANSFER_COMPLETE

StatusOk(st) == st = TRANSFER_COMPLETE

\* main.c:159, if(status == INIT_FAILURE)
InitFailed_never(st) == FALSE

InitFailed(st) == st = INIT_FAILURE

\* CY_ASSERT(x): traps when x is 0, else falls through to the next statement
CY_ASSERT_noop(x, next) == next

CY_ASSERT(x, next) == IF x = 0 THEN "halted" ELSE next

\* main.c:217-231, update_led: the pin level after the call
update_led_swapped(LED_Cmd, pin) ==
    LET p1 == IF LED_Cmd = CYBSP_LED_STATE_ON THEN Cy_GPIO_Set(pin) ELSE pin
    IN  IF LED_Cmd = CYBSP_LED_STATE_OFF THEN Cy_GPIO_Clr(p1) ELSE p1

update_led_toggle(LED_Cmd, pin) ==
    IF LED_Cmd = CYBSP_LED_STATE_ON THEN 1 - pin ELSE Cy_GPIO_Set(pin)

update_led_else(LED_Cmd, pin) ==
    IF LED_Cmd = CYBSP_LED_STATE_ON THEN Cy_GPIO_Clr(pin) ELSE Cy_GPIO_Set(pin)

update_led(LED_Cmd, pin) ==
    LET p1 == IF LED_Cmd = CYBSP_LED_STATE_ON THEN Cy_GPIO_Clr(pin) ELSE pin
    IN  IF LED_Cmd = CYBSP_LED_STATE_OFF THEN Cy_GPIO_Set(p1) ELSE p1

\* number of GPIO writes update_led makes for a command
update_led_writes(LED_Cmd) ==
    (IF LED_Cmd = CYBSP_LED_STATE_ON THEN 1 ELSE 0)
    + (IF LED_Cmd = CYBSP_LED_STATE_OFF THEN 1 ELSE 0)

\* the levels update_led writes to the LED pin for a command, in order
update_led_levels(LED_Cmd, pin) ==
    (IF LED_Cmd = CYBSP_LED_STATE_ON THEN <<Cy_GPIO_Clr(pin)>> ELSE <<>>)
    \o (IF LED_Cmd = CYBSP_LED_STATE_OFF THEN <<Cy_GPIO_Set(pin)>> ELSE <<>>)

----------------------------------------------------------------------------
(* The control program: main() *)

Init ==
    /\ pc = "cybsp_init"
    /\ result = CY_RSLT_SUCCESS
    /\ status = "0"
    /\ rx_buffer = ZeroBuffer
    /\ tx_buffer = ZeroBuffer
    /\ led_pin \in {0, 1}
    /\ irq_enabled = FALSE
    /\ debug_print \in BOOLEAN
    /\ ENTER_LOOP = TRUE
    /\ uart = <<>>
    /\ log = <<>>
    /\ ledCalls = 0
    /\ gpioWrites = 0
    /\ initCalls = 0
    /\ built = 0
    /\ spi_xfer = [size |-> 0, count |-> 0]
    /\ startup = <<>>
    /\ gpioLog = <<>>

\* main.c:136-140
CybspInit ==
    /\ pc = "cybsp_init"
    /\ \E r \in {CY_RSLT_SUCCESS, "CY_RSLT_ERROR"} :
         /\ result' = r
         /\ pc' = IF r # CY_RSLT_SUCCESS
                  THEN CY_ASSERT(CY_ASSERT_FAILED,
                                 IF debug_print THEN "uart_init" ELSE "init_slave")
                  ELSE IF debug_print THEN "uart_init" ELSE "init_slave"
    /\ startup' = Append(startup, "cybsp_init")
    /\ UNCHANGED <<status, rx_buffer, tx_buffer, led_pin, irq_enabled,
                   debug_print, ENTER_LOOP, uart, log, ledCalls, gpioWrites,
                   initCalls, built, spi_xfer, gpioLog>>

\* main.c:142-155 (DEBUG_PRINT builds only)
UartInit ==
    /\ pc = "uart_init"
    /\ uart' = Append(uart, "PMG1 MCU: SPI slave")
    /\ pc' = "init_slave"
    /\ UNCHANGED <<result, status, rx_buffer, tx_buffer, led_pin, irq_enabled,
                   debug_print, ENTER_LOOP, log, ledCalls, gpioWrites,
                   initCalls, built, spi_xfer, startup, gpioLog>>

\* main.c:158-165
InitSlave ==
    /\ pc = "init_slave"
    /\ \E s \in {INIT_SUCCESS, INIT_FAILURE} :
         /\ status' = s
         /\ IF InitFailed(s)
            THEN /\ uart' = IF debug_print
                            THEN Append(uart, "FAIL: API init_slave failed with error code")
                            ELSE uart
                 /\ pc' = CY_ASSERT(CY_ASSERT_FAILED, "enable_irq")
            ELSE /\ uart' = uart
                 /\ pc' = "enable_irq"
    /\ initCalls' = initCalls + 1
    /\ startup' = Append(startup, "init_slave")
    /\ UNCHANGED <<result, rx_buffer, tx_buffer, led_pin, irq_enabled,
                   debug_print, ENTER_LOOP, log, ledCalls, gpioWrites, built,
                   spi_xfer, gpioLog>>

\* main.c:168
EnableIrq ==
    /\ pc = "enable_irq"
    /\ irq_enabled' = TRUE
    /\ startup' = Append(startup, "__enable_irq")
    /\ pc' = "form_packet"
    /\ UNCHANGED <<result, status, rx_buffer, tx_buffer, led_pin,
                   debug_print, ENTER_LOOP, uart, log, ledCalls, gpioWrites,
                   initCalls, built, spi_xfer, gpioLog>>

\* main.c:173-175
FormPacket ==
    /\ pc = "form_packet"
    /\ tx_buffer' = FormStatusPacket(tx_buffer, rx_buffer)
    /\ built' = built + 1
    /\ pc' = "read_packet"
    /\ UNCHANGED <<result, status, rx_buffer, led_pin, irq_enabled,
                   debug_print, ENTER_LOOP, uart, log, ledCalls, gpioWrites,
                   initCalls, spi_xfer, startup, gpioLog>>

\* main.c:178, the call of read_packet(tx_buffer, rx_buffer, SIZE_OF_PACKET):
\* the transfer is set up and the slave waits for the master
ReadPacketCall ==
    /\ pc = "read_packet"
    /\ Len(log) < MaxExchanges
    /\ spi_xfer' = [size |-> SIZE_OF_PACKET, count |-> 0]
    /\ pc' = "transfer"
    /\ UNCHANGED <<result, status, rx_buffer, tx_buffer, led_pin, irq_enabled,
                   debug_print, ENTER_LOOP, uart, log, ledCalls, gpioWrites,
                   initCalls, built, startup, gpioLog>>

\* the SPI interrupt while read_packet waits: the master has clocked one more
\* byte, which is stored in place in the receive buffer
SpiByte ==
    /\ pc = "transfer"
    /\ irq_enabled
    /\ spi_xfer.count < spi_xfer.size
    /\ \E b \in Bytes :
         rx_buffer' = [rx_buffer EXCEPT ![spi_xfer.count + 1] = b]
    /\ spi_xfer' = [spi_xfer EXCEPT !.count = spi_xfer.count + 1]
    /\ UNCHANGED <<pc, result, status, tx_buffer, led_pin, irq_enabled,
                   debug_print, ENTER_LOOP, uart, log, ledCalls, gpioWrites,
                   initCalls, built, startup, gpioLog>>

\* main.c:178, read_packet returns: with the transport result Complete once
\* the master has clocked all the bytes requested, with Incomplete when the
\* transaction ended short, with Fault when the peripheral reports one
ReadPacketReturn ==
    /\ pc = "transfer"
    /\ \E xfer \in TransferResults :
         /\ xfer = "Complete" => TransferDone(spi_xfer)
         /\ xfer = "Incomplete" => spi_xfer.count < spi_xfer.size
         /\ LET st == ReadPacketStatus(xfer, rx_buffer)
            IN  /\ status' = st
                /\ log' = Append(log, [tx |-> tx_buffer, rx |-> rx_buffer,
                                       xfer |-> xfer, status |-> st,
                                       pin |-> led_pin,
                                       size |-> spi_xfer.size,
                                       count |-> spi_xfer.count])
    /\ pc' = "check"
    /\ UNCHANGED <<result, rx_buffer, tx_buffer, led_pin, irq_enabled,
                   debug_print, ENTER_LOOP, uart, ledCalls, gpioWrites,
                   initCalls, built, spi_xfer, startup, gpioLog>>

\* main.c:182-186
CheckOk ==
    /\ pc = "check"
    /\ StatusOk(status)
    /\ led_pin' = update_led(At(rx_buffer, PACKET_CMD_POS), led_pin)
    /\ ledCalls' = ledCalls + 1
    /\ gpioWrites' = gpioWrites + update_led_writes(At(rx_buffer, PACKET_CMD_POS))
    /\ gpioLog' = gpioLog \o update_led_levels(At(rx_buffer, PACKET_CMD_POS),
                                                led_pin)
    /\ pc' = IF debug_print THEN "dbg" ELSE "form_packet"
    /\ UNCHANGED <<result, status, rx_buffer, tx_buffer, irq_enabled,
                   debug_print, ENTER_LOOP, uart, log, initCalls, built,
                   spi_xfer, startup>>

\* main.c:187-190
CheckFail ==
    /\ pc = "check"
    /\ ~StatusOk(status)
    /\ pc' = CY_ASSERT(CY_ASSERT_FAILED,
                       IF debug_print THEN "dbg" ELSE "form_packet")
    /\ UNCHANGED <<result, status, rx_buffer, tx_buffer, led_pin, irq_enabled,
                   debug_print, ENTER_LOOP, uart, log, ledCalls, gpioWrites,
                   initCalls, built, spi_xfer, startup, gpioLog>>

\* main.c:191-197 (DEBUG_PRINT builds only)
DebugPrint ==
    /\ pc = "dbg"
    /\ IF ENTER_LOOP
       THEN /\ uart' = Append(uart, "Entered for loop")
            /\ ENTER_LOOP' = FALSE
       ELSE UNCHANGED <<uart, ENTER_LOOP>>
    /\ pc' = "form_packet"
    /\ UNCHANGED <<result, status, rx_buffer, tx_buffer, led_pin, irq_enabled,
                   debug_print, log, ledCalls, gpioWrites, initCalls, built,
                   spi_xfer, startup, gpioLog>>

Next ==
    \/ CybspInit
    \/ UartInit
    \/ InitSlave
    \/ EnableIrq
    \/ FormPacket
    \/ ReadPacketCall
    \/ SpiByte
    \/ ReadPacketReturn
    \/ CheckOk
    \/ CheckFail
    \/ DebugPrint

Spec == Init /\ [][Next]_vars

----------------------------------------------------------------------------
(* The packet codec on its own: forming a status packet for a payload and   *)
(* accepting or rejecting a received buffer, for every payload byte.        *)

InitCodec ==
    /\ pc = "codec"
    /\ result = CY_RSLT_SUCCESS
    /\ status = "0"
    /\ \E b0 \in FrameBytes, b1 \in AllBytes, b2 \in FrameBytes :
         rx_buffer = <<b0, b1, b2>>
    /\ tx_buffer = ZeroBuffer
    /\ led_pin = 1
    /\ irq_enabled = TRUE
    /\ debug_print = FALSE
    /\ ENTER_LOOP = TRUE
    /\ uart = <<>>
    /\ log = <<>>
    /\ ledCalls = 0
    /\ gpioWrites = 0
    /\ initCalls = 1
    /\ built = 0
    /\ spi_xfer = [size |-> 0, count |-> 0]
    /\ startup = <<"cybsp_init", "init_slave", "__enable_irq">>
    /\ gpioLog = <<>>

\* main.c:173-175 for the payload held in rx_buffer
CodecBuild ==
    /\ pc = "codec"
    /\ tx_buffer' = FormStatusPacket(tx_buffer, rx_buffer)
    /\ built' = built + 1
    /\ pc' = "codec_built"
    /\ UNCHANGED <<result, status, rx_buffer, led_pin, irq_enabled,
                   debug_print, ENTER_LOOP, uart, log, ledCalls, gpioWrites,
                   initCalls, spi_xfer, startup, gpioLog>>

\* main.c:178-182 when the packet received is the packet just formed
CodecEcho ==
    /\ pc = "codec_built"
    /\ rx_buffer' = tx_buffer
    /\ status' = ReadPacketStatus("Complete", tx_buffer)
    /\ pc' = IF StatusOk(status') THEN "echo_accepted" ELSE "echo_rejected"
    /\ UNCHANGED <<result, tx_buffer, led_pin, irq_enabled, debug_print,
                   ENTER_LOOP, uart, log, ledCalls, gpioWrites, initCalls,
                   built, spi_xfer, startup, gpioLog>>

\* main.c:178-182 for the buffer held in rx_buffer, transport complete
CodecValidate ==
    /\ pc = "codec"
    /\ status' = ReadPacketStatus("Complete", rx_buffer)
    /\ pc' = IF StatusOk(status') THEN "accepted" ELSE "rejected"
    /\ UNCHANGED <<result, rx_buffer, tx_buffer, led_pin, irq_enabled,
                   debug_print, ENTER_LOOP, uart, log, ledCalls, gpioWrites,
                   initCalls, built, spi_xfer, startup, gpioLog>>

NextCodec ==
    \/ CodecBuild
    \/ CodecEcho
    \/ CodecValidate

SpecCodec == InitCodec /\ [][NextCodec]_vars

----------------------------------------------------------------------------
(* Properties *)

\* the payload byte of a packet
Payload(buf) == At(buf, PACKET_CMD_POS)

\* main() is in the loop, past the processing of the last exchange
Processed == pc \in {"dbg", "form_packet", "read_packet", "transfer"}

\* the status packet is formed and is being, or about to be, exchanged
AtExchange == pc \in {"read_packet", "transfer"}

\* C1: pipelining. The payload the slave transmitted during exchange n is
\* the payload received in exchange n-1, which was a validated exchange; the
\* payload transmitted during exchange 1 is the initial 0x00.
C1_Pipelining ==
    \A n \in 1..Len(log) :
        IF n = 1
        THEN Payload(log[n].tx) = 0
        ELSE /\ log[n-1].status = TRANSFER_COMPLETE
             /\ Payload(log[n].tx) = Payload(log[n-1].rx)

\* exchange 2 carried the command of exchange 1 (ON), not its own (OFF)
C1_Witness ==
    /\ Len(log) >= 2
    /\ Payload(log[1].rx) = 1
    /\ Payload(log[2].rx) = 0
    /\ Payload(log[2].tx) = 1

\* C2: once an exchange that completed with [0x01, 0x01, 0x17] is processed
\* the LED is ON and the next status packet carries 0x01; with
\* [0x01, 0x00, 0x17] the LED is OFF and the next status packet carries 0x00.
C2_CommandSetsLedAndStatus ==
    (Len(log) > 0 /\ Processed /\ Last(log).xfer = "Complete") =>
        /\ Last(log).rx = <<1, 1, 23>> =>
              /\ LedIsOn
              /\ AtExchange => tx_buffer = <<1, 1, 23>>
        /\ Last(log).rx = <<1, 0, 23>> =>
              /\ ~LedIsOn
              /\ AtExchange => tx_buffer = <<1, 0, 23>>

\* ON then OFF: the LED was lit during exchange 2, which turned it off
C2_Witness ==
    /\ Len(log) = 2
    /\ pc = "transfer"
    /\ log[1].rx = <<1, 1, 23>>
    /\ log[1].pin = 1
    /\ log[2].rx = <<1, 0, 23>>
    /\ log[2].pin = 0
    /\ log[2].tx = <<1, 1, 23>>
    /\ ~LedIsOn
    /\ tx_buffer = <<1, 0, 23>>

\* C3: a received packet whose byte 0 is not 0x01 or whose byte 2 is not
\* 0x17 takes main() to the halt, whatever its payload, without a call of
\* update_led and without a write of the LED pin.
C3_BadFramingHalts ==
    [][(pc = "check" /\ (rx_buffer[1] # 1 \/ rx_buffer[3] # 23)) =>
           /\ pc' = "halted"
           /\ ledCalls' = ledCalls
           /\ gpioWrites' = gpioWrites
           /\ led_pin' = led_pin]_vars

\* a complete transfer with a bad SOP and an ON command, LED still off
C3_Witness ==
    /\ pc = "halted"
    /\ Len(log) = 2
    /\ Last(log).xfer = "Complete"
    /\ rx_buffer = <<2, 1, 23>>
    /\ ~LedIsOn
    /\ ledCalls = 1

\* C4: when the transport result is not Complete, the step main() takes is
\* the halt; update_led is not called for that exchange, the LED pin keeps
\* the level it had during the exchange, and no status packet is formed from
\* the receive buffer (the transmit buffer stays the packet just sent).
C4_TransferFailureHalts ==
    [][/\ (pc = "check" /\ Last(log).xfer # "Complete") => pc' = "halted"
       /\ (Len(log') > 0 /\ Last(log').xfer # "Complete") =>
             /\ pc' \in {"check", "halted"}
             /\ ledCalls' = Len(log') - 1
             /\ led_pin' = Last(log').pin
             /\ tx_buffer' = Last(log').tx
             /\ built' = Len(log')]_vars

\* a faulted transfer that delivered a well-framed ON command
C4_Witness ==
    /\ pc = "halted"
    /\ Len(log) = 2
    /\ Last(log).xfer = "Fault"
    /\ rx_buffer = <<1, 1, 23>>
    /\ tx_buffer = <<1, 0, 23>>
    /\ ~LedIsOn

\* C5: once an exchange has failed (framing or transfer), every further
\* step ends in the halt and makes no call of update_led, no write of the
\* LED pin, forms no status packet and completes no exchange.
C5_HaltAbsorbing ==
    [][(Len(log) > 0 /\ Last(log).status # TRANSFER_COMPLETE) =>
           /\ pc' = "halted"
           /\ ledCalls' = ledCalls
           /\ gpioWrites' = gpioWrites
           /\ led_pin' = led_pin
           /\ built' = built
           /\ tx_buffer' = tx_buffer
           /\ log' = log]_vars

\* halted after two good exchanges and a failed third
C5_Witness ==
    /\ pc = "halted"
    /\ Len(log) = 3
    /\ Last(log).status # TRANSFER_COMPLETE
    /\ ledCalls = 2
    /\ built = 3

\* C6: when init_slave reports failure, main() is halted: interrupts are
\* not enabled, no status packet is formed, no exchange is made, update_led
\* is not called, and init_slave has been called once only.
C6_InitFailureHalts ==
    /\ initCalls <= 1
    /\ status = INIT_FAILURE =>
          /\ pc = "halted"
          /\ initCalls = 1
          /\ log = <<>>
          /\ ~irq_enabled
          /\ built = 0
          /\ tx_buffer = ZeroBuffer
          /\ ledCalls = 0
          /\ gpioWrites = 0

C6_Witness ==
    /\ pc = "halted"
    /\ status = INIT_FAILURE
    /\ initCalls = 1

\* C7 as stated: after a validated packet is processed the LED is ON exactly
\* when the payload is the ON value, so every other payload drives it OFF
\* (looked at once the program has driven the LED pin at least once, so that
\* the level does not come from the reset default).
C7_Original ==
    (Len(log) > 0 /\ Processed /\ Last(log).status = TRANSFER_COMPLETE
       /\ gpioWrites > 0) =>
        (LedIsOn <=> Payload(Last(log).rx) = CYBSP_LED_STATE_ON)

\* C7 amended: processing a validated packet calls update_led once; payload
\* 0x01 drives the LED ON, payload 0x00 drives it OFF, any other payload
\* leaves the LED pin as it was; the payload stays in the receive buffer and
\* is the payload of the next status packet formed.
C7_Amended ==
    [][/\ (pc = "check" /\ status = TRANSFER_COMPLETE) =>
             /\ ledCalls' = ledCalls + 1
             /\ led_pin' = (IF rx_buffer[2] = 1 THEN 0
                            ELSE IF rx_buffer[2] = 0 THEN 1
                            ELSE led_pin)
             /\ rx_buffer' = rx_buffer
       /\ (pc = "form_packet" /\ Len(log) > 0) =>
             tx_buffer'[2] = Last(log).rx[2]]_vars

\* payload 0x02 was validated and processed while the LED was lit
C7_Witness ==
    /\ pc = "read_packet"
    /\ Len(log) = 2
    /\ Payload(log[1].rx) = 1
    /\ Payload(log[2].rx) = 2
    /\ ledCalls = 2
    /\ LedIsOn
    /\ Payload(tx_buffer) = 2

\* C8: whenever read_packet is called or in progress, and in every exchange
\* made, the transmit buffer starts with 0x01 and ends with 0x17.
C8_OutboundWellFormed ==
    /\ AtExchange => (tx_buffer[1] = 1 /\ tx_buffer[3] = 23)
    /\ \A n \in 1..Len(log) : log[n].tx[1] = 1 /\ log[n].tx[3] = 23

\* a status packet with a payload outside {0x00, 0x01} being exchanged
C8_Witness ==
    /\ pc = "transfer"
    /\ Len(log) = 2
    /\ tx_buffer = <<1, 24, 23>>

\* C9: the status packet formed for any payload byte is [0x01, p, 0x17] and,
\* received back, is accepted.
C9_RoundTrip ==
    /\ pc = "codec_built" => tx_buffer = <<1, rx_buffer[2], 23>>
    /\ pc # "echo_rejected"

C9_Witness ==
    /\ pc = "echo_accepted"
    /\ rx_buffer = <<1, 255, 23>>

\* C10: a received buffer is accepted iff its byte 0 is 0x01 and its byte 2
\* is 0x17, whatever its payload byte.
C10_ValidateIffFraming ==
    pc \in {"accepted", "rejected"} =>
        (pc = "accepted" <=> (rx_buffer[1] = 1 /\ rx_buffer[3] = 23))

\* a well-framed buffer with payload 0xC8 is accepted
C10_Witness ==
    /\ pc = "accepted"
    /\ rx_buffer[2] = 200

\* the largest element of a non-empty set of numbers
MaxOf(S) == CHOOSE x \in S : \A y \in S : y <= x

\* OutputState: the command last accepted, which is what main() reads back
\* from rx_buffer[PACKET_CMD_POS] (main.c:174, main.c:185); 0x00 before any
MaxValidated == {n \in 1..Len(log) : log[n].status = TRANSFER_COMPLETE}

OutputState ==
    IF MaxValidated = {}
    THEN Payload(ZeroBuffer)
    ELSE Payload(log[MaxOf(MaxValidated)].rx)

----------------------------------------------------------------------------
(* main() keeps running: the processor executes the steps of main(), while  *)
(* nothing obliges the master to drive the bus.                             *)

MainStep ==
    \/ CybspInit
    \/ UartInit
    \/ InitSlave
    \/ EnableIrq
    \/ FormPacket
    \/ ReadPacketCall
    \/ CheckOk
    \/ CheckFail
    \/ DebugPrint

SpecLive == Init /\ [][Next]_vars /\ WF_vars(MainStep)

\* C12: the loop has no exit. main() is halted only after a failure (board
\* initialisation, init_slave, or a failed exchange), and every exchange
\* that returns TRANSFER_COMPLETE is followed by a new status packet and a
\* new call of read_packet (up to the number of exchanges of the model).
C12_LoopNeverExits ==
    /\ [](pc = "halted" =>
            \/ result # CY_RSLT_SUCCESS
            \/ status = INIT_FAILURE
            \/ (Len(log) > 0 /\ Last(log).status # TRANSFER_COMPLETE))
    /\ \A n \in 1..(MaxExchanges - 1) :
          (pc = "check" /\ status = TRANSFER_COMPLETE /\ Len(log) = n)
             ~> (pc = "transfer" /\ Len(log) = n /\ built = n + 1)

\* waiting in the third exchange after two accepted ones
C12_Witness ==
    /\ pc = "transfer"
    /\ Len(log) = 2
    /\ log[1].status = TRANSFER_COMPLETE
    /\ log[2].status = TRANSFER_COMPLETE
    /\ ledCalls = 2
    /\ built = 3

C14_ThreeByteExchanges ==
    /\ Len(tx_buffer) = 3
    /\ Len(rx_buffer) = 3
    /\ pc \in {"transfer", "check"} =>
          (spi_xfer.size = 3 /\ spi_xfer.count <= 3)
    /\ \A n \in 1..Len(log) :
          /\ log[n].size = 3
          /\ log[n].count <= 3
          /\ Len(log[n].tx) = 3
          /\ Len(log[n].rx) = 3

\* the third exchange, fully clocked, about to return
C14_Witness ==
    /\ pc = "transfer"
    /\ Len(log) = 2
    /\ spi_xfer = [size |-> 3, count |-> 3]

\* C15: once the program has driven the LED, the payload of every status
\* packet handed to read_packet is 0x00 or 0x01 and tells the level the LED
\* holds at that moment (0x01 exactly when it is lit).
C15_StatusIsLedLevel ==
    (AtExchange /\ Len(log) > 0 /\ gpioWrites > 0) =>
        /\ Payload(tx_buffer) \in {0, 1}
        /\ Payload(tx_buffer) = 1 <=> LedIsOn

\* C16: the steps of an iteration come in the order form packet, exchange,
\* status check, update_led. At each position of the loop the numbers of
\* packets formed, exchanges made and update_led calls agree with that order;
\* update_led has been called exactly once for each accepted exchange and
\* for no other, before the next packet is formed, and it writes the LED pin
\* at most once per call.
C16_IterationOrder ==
    /\ pc = "form_packet" => (built = Len(log) /\ ledCalls = Len(log))
    /\ AtExchange => (built = Len(log) + 1 /\ ledCalls = Len(log))
    /\ pc = "check" => (built = Len(log) /\ ledCalls = Len(log) - 1)
    /\ pc = "dbg" => (built = Len(log) /\ ledCalls = Len(log))
    /\ (pc = "halted" /\ Len(log) > 0) =>
          (built = Len(log) /\ ledCalls = Len(log) - 1)
    /\ ledCalls <= Len(log)
    /\ \A n \in 1..Len(log) :
          n <= ledCalls => log[n].status = TRANSFER_COMPLETE
    /\ gpioWrites <= ledCalls

\* after the update for exchange 2, before the third packet is formed
C16_Witness ==
    /\ pc = "dbg"
    /\ Len(log) = 2
    /\ ledCalls = 2
    /\ built = 2
    /\ gpioWrites = 2

\* the debug UART shows a failure report of check_status (main.c:93-105)
FailReported ==
    \E i \in 1..Len(uart) :
        uart[i] = "FAIL: API init_slave failed with error code"

\* C17 as stated: a build with debug printing that has halted after a failed
\* exchange has printed a failure diagnostic.
C17_Original ==
    (pc = "halted" /\ debug_print /\ Len(log) > 0
       /\ Last(log).status # TRANSFER_COMPLETE) => FailReported

\* C17 amended: when read_packet returns anything but TRANSFER_COMPLETE the
\* next step of main() is the halt, so the failure is never passed over, but
\* nothing is printed on that path: the debug UART output is left as it was
\* and holds no failure report.
C17_Amended ==
    [][(pc = "check" /\ status # TRANSFER_COMPLETE) =>
           /\ pc' = "halted"
           /\ uart' = uart
           /\ ~FailReported']_vars

\* a debug build halted on its first exchange with only the banner printed
C17_Witness ==
    /\ pc = "halted"
    /\ debug_print
    /\ Len(log) = 1
    /\ Last(log).status # TRANSFER_COMPLETE
    /\ uart = <<"PMG1 MCU: SPI slave">>

\* C18: last command wins. After any sequence of accepted exchanges whose
\* payloads are all 0x00 or 0x01, the LED level and the payload main() holds
\* and reports are those of the most recent payload alone: lit and 0x01 when
\* it is 0x01, dark and 0x00 when it is 0x00, whatever came before.
C18_LastCommandWins ==
    (/\ Len(log) > 0
     /\ Processed
     /\ \A n \in 1..Len(log) :
           /\ log[n].status = TRANSFER_COMPLETE
           /\ Payload(log[n].rx) \in {0, 1}) =>
        /\ LedIsOn <=> Payload(Last(log).rx) = 1
        /\ pc # "transfer" => Payload(rx_buffer) = Payload(Last(log).rx)
        /\ AtExchange => Payload(tx_buffer) = Payload(Last(log).rx)

\* OFF, ON, ON: the second ON leaves what the first ON left
C18_Witness ==
    /\ pc = "read_packet"
    /\ Len(log) = 3
    /\ Payload(log[1].rx) = 0
    /\ Payload(log[2].rx) = 1
    /\ Payload(log[3].rx) = 1
    /\ log[3].pin = 0
    /\ LedIsOn
    /\ tx_buffer = <<1, 1, 23>>

\* C19: while read_packet is in progress main() touches neither buffer: the
\* transmit buffer is written only when the status packet is formed, the
\* receive buffer only by the transport during an exchange, one byte at a
\* time, and a status packet is formed, or update_led called, only on a
\* receive buffer that a completed three-byte exchange has filled.
C19_BuffersOwnedByTransport ==
    [][/\ tx_buffer' # tx_buffer => pc = "form_packet"
       /\ rx_buffer' # rx_buffer =>
             /\ pc = "transfer" /\ pc' = "transfer"
             /\ \A i \in 1..3 :
                   i # spi_xfer.count + 1 => rx_buffer'[i] = rx_buffer[i]
       /\ (pc = "transfer" /\ pc' = "transfer") =>
             (led_pin' = led_pin /\ ledCalls' = ledCalls /\ built' = built)
       /\ (built' # built /\ Len(log) > 0) =>
             /\ Last(log).xfer = "Complete"
             /\ Last(log).count = 3
             /\ rx_buffer = Last(log).rx
       /\ ledCalls' # ledCalls =>
             /\ Last(log).xfer = "Complete"
             /\ Last(log).count = 3
             /\ rx_buffer = Last(log).rx
      ]_vars

\* an exchange cut short after two bytes left <<1, 1, stale 23>> in the
\* receive buffer, which looks like an ON command; it was not acted on
C19_Witness ==
    /\ pc = "halted"
    /\ Len(log) = 2
    /\ log[1].rx = <<1, 0, 23>>
    /\ log[2].xfer = "Incomplete"
    /\ log[2].count = 2
    /\ rx_buffer = <<1, 1, 23>>
    /\ ~LedIsOn
    /\ ledCalls = 1

\* the start-up calls of main(), in program order (main.c:136, 158, 168)
StartupOrder == <<"cybsp_init", "init_slave", "__enable_irq">>

\* C20: the start-up calls made so far are always an initial part of
\* cybsp_init, init_slave, __enable_irq, each made once; init_slave has been
\* called only if cybsp_init succeeded, interrupts have been enabled only if
\* init_slave did not report failure, a failed cybsp_init leaves main()
\* halted with init_slave never called, and main() is in the loop (a packet
\* formed, an exchange called) only after all three.
C20_StartupOrder ==
    /\ Len(startup) <= 3
    /\ \A i \in 1..Len(startup) : startup[i] = StartupOrder[i]
    /\ initCalls = (IF Len(startup) >= 2 THEN 1 ELSE 0)
    /\ irq_enabled <=> Len(startup) = 3
    /\ Len(startup) >= 2 => result = CY_RSLT_SUCCESS
    /\ (Len(startup) = 3 /\ Len(log) = 0) => status = INIT_SUCCESS
    /\ status = INIT_FAILURE => (Len(startup) = 2 /\ pc = "halted")
    /\ result # CY_RSLT_SUCCESS =>
          (startup = <<"cybsp_init">> /\ pc = "halted" /\ initCalls = 0)
    /\ (built > 0 \/ Len(log) > 0
          \/ pc \in {"form_packet", "read_packet", "transfer", "check", "dbg"}) =>
          (Len(startup) = 3 /\ irq_enabled)

\* the first exchange in progress, all three start-up calls made
C20_Witness ==
    /\ pc = "transfer"
    /\ Len(log) = 0
    /\ built = 1
    /\ startup = StartupOrder
    /\ irq_enabled
    /\ status = INIT_SUCCESS
    /\ result = CY_RSLT_SUCCESS

----------------------------------------------------------------------------
(* Determinism: what a run is given, and what it must produce from it.      *)

\* the inputs of the exchanges made so far: the transport result and the
\* received packet of each
Inputs == [n \in 1..Len(log) |-> [xfer |-> log[n].xfer, rx |-> log[n].rx]]

\* exchange n of the inputs was accepted
Accepted(in, n) ==
    /\ in[n].xfer = "Complete"
    /\ in[n].rx[1] = 1
    /\ in[n].rx[3] = 23

\* the outbound packet of exchange n: a function of the inbound payload of
\* exchange n-1 alone (0x00 for the first exchange)
ExpectedOutbound(in, n) ==
    <<1, IF n = 1 THEN 0 ELSE in[n-1].rx[2], 23>>

\* the actuator writes made for the first k exchanges of the inputs
RECURSIVE ExpectedWrites(_, _)
ExpectedWrites(in, k) ==
    IF k = 0
    THEN <<>>
    ELSE ExpectedWrites(in, k - 1)
         \o (IF in[k].rx[2] = 1 THEN <<0>>
             ELSE IF in[k].rx[2] = 0 THEN <<1>>
             ELSE <<>>)

\* the number of exchanges of the inputs that have been processed, given
\* where main() is
ProcessedCount == IF pc \in {"check", "halted"} /\ Len(log) > 0
                  THEN Len(log) - 1
                  ELSE Len(log)

\* C21: determinism. The outbound packets and the actuator writes of a run
\* are a function of its inputs alone (the initialisation result, the
\* transport result and the received packet of each exchange), whatever the
\* reset level of the LED pin and whether or not the build prints: no
\* outbound packet and no write without a successful initialisation; the
\* outbound packet of exchange n+1 is fixed by the inbound payload of
\* exchange n; a further exchange is made only after accepted ones; and the
\* writes are those fixed by the payloads of the exchanges processed.
C21_Determinism ==
    /\ (result # CY_RSLT_SUCCESS \/ status = INIT_FAILURE) =>
          (log = <<>> /\ gpioLog = <<>> /\ built = 0)
    /\ \A n \in 1..Len(log) :
          /\ log[n].tx = ExpectedOutbound(Inputs, n)
          /\ n < Len(log) => Accepted(Inputs, n)
    /\ AtExchange => tx_buffer = ExpectedOutbound(Inputs, Len(log) + 1)
    /\ (Len(log) > 0 /\ pc # "check") =>
          (pc = "halted" <=> ~Accepted(Inputs, Len(log)))
    /\ gpioLog = ExpectedWrites(Inputs, ProcessedCount)

\* ON, 0x02, OFF were accepted in a run whose LED was dark at reset: the
\* third outbound packet carried 0x02 and two writes were made
C21_Witness ==
    /\ pc = "read_packet"
    /\ Len(log) = 3
    /\ log[1].pin = 1
    /\ Payload(log[1].rx) = 1
    /\ Payload(log[2].rx) = 2
    /\ Payload(log[3].rx) = 0
    /\ log[3].tx = <<1, 2, 23>>
    /\ gpioLog = <<0, 1>>
    /\ tx_buffer = <<1, 0, 23>>

----------------------------------------------------------------------------
(* The one-time print of the loop (DEBUG_PRINT builds) *)

\* the positions of the debug UART output that hold the loop message
EnteredLoopPrints == {i \in 1..Len(uart) : uart[i] = "Entered for loop"}

\* C22: the "Entered for loop" message is on the debug UART at most once; it
\* is printed only by a build with debug printing, by the step that follows
\* the update_led call of the first exchange, which returned
\* TRANSFER_COMPLETE; a run whose first exchange failed never has it, and
\* ENTER_LOOP is cleared exactly when it has been printed.
C22_EnteredLoopOnce ==
    /\ Cardinality(EnteredLoopPrints) <= 1
    /\ EnteredLoopPrints # {} =>
          /\ debug_print
          /\ Len(log) >= 1
          /\ log[1].status = TRANSFER_COMPLETE
          /\ ledCalls >= 1
    /\ (Len(log) >= 1 /\ log[1].status # TRANSFER_COMPLETE) =>
          EnteredLoopPrints = {}
    /\ ENTER_LOOP <=> EnteredLoopPrints = {}
    /\ (debug_print /\ pc \in {"form_packet", "read_packet", "transfer"}
          /\ Len(log) >= 1) => EnteredLoopPrints # {}
    /\ (pc = "dbg" /\ ENTER_LOOP) => (Len(log) = 1 /\ ledCalls = 1)

\* a debug build after three accepted exchanges: the message is there once,
\* after the banner, and the later passes of the loop did not repeat it
C22_Witness ==
    /\ debug_print
    /\ pc = "read_packet"
    /\ Len(log) = 3
    /\ ledCalls = 3
    /\ uart = <<"PMG1 MCU: SPI slave", "Entered for loop">>
    /\ ~ENTER_LOOP

====
